---- MODULE Spec2Model ----
(***************************************************************************)
(* Client-side session, API and payment orchestration of the loan          *)
(* platform front end: the Auth module (three versions are present in the  *)
(* repository), the Loan module and the Paystack adapter.                  *)
(*                                                                         *)
(* Strings are sequences of one-character strings, so that the string      *)
(* functions of the source (split, replace, slice, regular expressions)    *)
(* are computed and not assumed.                                           *)
(***************************************************************************)
EXTENDS Integers, Sequences, FiniteSets, TLC

VARIABLES
    variant,        \* which version of the Auth module the page loaded
    access_token,   \* localStorage["access_token"]; <<>> when the key is absent
    clock,          \* wall clock, in half seconds (Date.now() = clock * 500)
    calls,          \* per caller: the api/apiFormData invocation awaiting its response
    pays,           \* per payment attempt: the promise of payServiceFeeInline
    provider,       \* window.PaystackPop is defined (the provider script loaded)
    verified,       \* references for which /payments/verify/ answered with success
    last,           \* the operation that ran last, what it returned and whether it sent a request
    probe           \* input and output of a pure function under test

vars == <<variant, access_token, clock, calls, pays, provider, verified, last, probe>>

(***************************************************************************)
(* Bounds of the model.                                                    *)
(***************************************************************************)
MaxClock == 2
MaxFeeAmount == 60010

\* The three versions of the Auth module.
AuthJs == "auth_js"      \* src/Backend/Frontend/js/auth.js
Part000 == "part_000"    \* src/unnamed/part_000
Part001 == "part_001"    \* src/unnamed/part_001
Variants == {AuthJs, Part000, Part001}

(***************************************************************************)
(* Characters and generic string helpers.                                  *)
(***************************************************************************)
Digits == {"0", "1", "2", "3", "4", "5", "6", "7", "8", "9"}
Whitespace == {" "}

EmptyStr == <<>>

RECURSIVE RemoveChars(_, _)
\* s.replace(/<class>/g, "") for a character class
RemoveChars(s, class) ==
    IF s = <<>> THEN <<>>
    ELSE IF Head(s) \in class THEN RemoveChars(Tail(s), class)
         ELSE <<Head(s)>> \o RemoveChars(Tail(s), class)

RECURSIVE TrimLeft(_)
TrimLeft(s) == IF s # <<>> /\ Head(s) \in Whitespace THEN TrimLeft(Tail(s)) ELSE s

RECURSIVE TrimRight(_)
TrimRight(s) ==
    IF s # <<>> /\ s[Len(s)] \in Whitespace THEN TrimRight(SubSeq(s, 1, Len(s) - 1)) ELSE s

\* String.prototype.trim
Trim(s) == TrimRight(TrimLeft(s))

\* s.slice(n) for 0 <= n
Slice(s, n) == IF n >= Len(s) THEN <<>> ELSE SubSeq(s, n + 1, Len(s))

\* s.startsWith(p)
StartsWith(s, p) == Len(s) >= Len(p) /\ SubSeq(s, 1, Len(p)) = p

AllDigits(s) == \A i \in 1..Len(s) : s[i] \in Digits

RECURSIVE Split(_, _)
\* s.split(sep) for a one-character separator: always at least one part
Split(s, sep) ==
    IF \A i \in 1..Len(s) : s[i] # sep THEN <<s>>
    ELSE LET k == CHOOSE i \in 1..Len(s) : s[i] = sep /\ \A j \in 1..(i - 1) : s[j] # sep
         IN <<SubSeq(s, 1, k - 1)>> \o Split(Slice(s, k), sep)

\* s.replace(/a/g, b) for single characters
ReplaceChar(s, a, b) == [i \in 1..Len(s) |-> IF s[i] = a THEN b ELSE s[i]]

(***************************************************************************)
(* Tokens.  A token is a string; its second dot-separated segment is read  *)
(* through atob and JSON.parse.  The codebook below stands for base64: it  *)
(* gives, for each segment used here, the text atob returns (or that atob  *)
(* throws), and JsonParse gives the value JSON.parse returns for that text *)
(* (or that it throws).                                                    *)
(***************************************************************************)
Throws == [ok |-> FALSE, val |-> "throws"]
Returns(v) == [ok |-> TRUE, val |-> v]

JsNull == [t |-> "null", exp |-> <<>>]
JsNumber == [t |-> "number", exp |-> <<>>]          \* a JSON number as the whole payload
JsObject(e) == [t |-> "object", exp |-> e]          \* exp: <<>> when absent, <<n>> when present

\* window.atob on the (already url-unescaped, padded) segment
Atob(seg) ==
    CASE seg = <<"N">> -> Returns("null")
      [] seg = <<"7">> -> Returns("7")
      [] seg = <<"O">> -> Returns("{}")
      [] seg = <<"Z">> -> Returns("{exp:0}")
      [] seg = <<"a">> -> Returns("{exp:31}")
      [] seg = <<"b">> -> Returns("{exp:32}")
      [] seg = <<"J">> -> Returns("not json")
      [] seg = <<>>    -> Returns("")
      [] OTHER         -> Throws        \* "%", "+", "/" alone: not decodable

JsonParse(text) ==
    CASE text = "null"     -> Returns(JsNull)
      [] text = "7"        -> Returns(JsNumber)
      [] text = "{}"       -> Returns(JsObject(<<>>))
      [] text = "{exp:0}"  -> Returns(JsObject(<<0>>))
      [] text = "{exp:31}" -> Returns(JsObject(<<31>>))
      [] text = "{exp:32}" -> Returns(JsObject(<<32>>))
      [] OTHER             -> Throws    \* "", "not json"

\* !v for a parsed payload or null
Falsy(v) == v.t = "null"

Tok(p) == <<"h", ".">> \o p \o <<".", "s">>

NoToken == <<>>
T31 == Tok(<<"a">>)                     \* exp = 31 s
T32 == Tok(<<"b">>)                     \* exp = 32 s
TExp0 == Tok(<<"Z">>)                   \* exp = 0
TNoExp == Tok(<<"O">>)                  \* payload {} without exp
TNumber == Tok(<<"7">>)                 \* payload 7
TJsonNull == Tok(<<"N">>)               \* payload null
TBadJson == Tok(<<"J">>)                \* payload decodes, JSON.parse throws
TBadB64 == Tok(<<"%">>)                 \* atob throws
TUrlChar == Tok(<<"-">>)                \* "-" becomes "+", atob throws
TEmptySeg == Tok(<<>>)                  \* "h..s"
TTwoSeg == <<"h", ".", "b">>            \* two segments
TFourSeg == Tok(<<"b">>) \o <<".", "x">>  \* four segments
TOneSeg == <<"b">>

AllTokens == {T31, T32, TExp0, TNoExp, TNumber, TJsonNull, TBadJson, TBadB64,
              TUrlChar, TEmptySeg, TTwoSeg, TFourSeg, TOneSeg}

\* the tokens the backend hands out, or that a previous page left in storage
SessionTokens == {T31, TNoExp, TTwoSeg}

\* Date.now(), in milliseconds
DateNow(c) == c * 500

\* parseJWT: the payload, or JsNull (null) on any failure
parseJWT(token) ==
    IF token = EmptyStr THEN JsNull
    ELSE LET parts == Split(token, ".") IN
         IF Len(parts) # 3 THEN JsNull
         ELSE LET payload == ReplaceChar(ReplaceChar(parts[2], "-", "+"), "_", "/")
                  decoded == Atob(payload)
              IN IF ~decoded.ok THEN JsNull
                 ELSE LET parsed == JsonParse(decoded.val)
                      IN IF ~parsed.ok THEN JsNull ELSE parsed.val

\* payload.exp is falsy: absent, or 0
ExpFalsy(payload) == payload.exp = <<>> \/ payload.exp[1] = 0

\* isTokenExpired of part_000 and part_001
isTokenExpiredStrict(token, c) ==
    LET payload == parseJWT(token) IN
    IF Falsy(payload) \/ ExpFalsy(payload) THEN TRUE
    ELSE (DateNow(c) \div 1000) >= payload.exp[1] - 30

\* isTokenExpired of auth.js: a payload without exp is not expired
isTokenExpiredLenient(token, c) ==
    LET payload == parseJWT(token) IN
    IF Falsy(payload) THEN TRUE
    ELSE IF ExpFalsy(payload) THEN FALSE
    ELSE DateNow(c) >= (payload.exp[1] * 1000) - 30000

isTokenExpired(v, token, c) ==
    IF v = AuthJs THEN isTokenExpiredLenient(token, c) ELSE isTokenExpiredStrict(token, c)

\* getToken(): localStorage.getItem("access_token") || ""
getToken(store) == store

\* setToken(token): stores only a truthy token
setToken(store, token) == IF token # EmptyStr THEN token ELSE store

\* removeToken()
removeToken(store) == NoToken

(***************************************************************************)
(* Phone normalization and input validation.                               *)
(***************************************************************************)
\* /^(7|1)\d{8}$/
MobileNine(s) == Len(s) = 9 /\ s[1] \in {"7", "1"} /\ AllDigits(s)

\* /^0(7|1)\d{8}$/
LocalTen(s) == Len(s) = 10 /\ s[1] = "0" /\ MobileNine(Slice(s, 1))

\* /^\d{6,10}$/
NationalIdOk(s) == Len(s) >= 6 /\ Len(s) <= 10 /\ AllDigits(s)

Fail(e) == [ok |-> FALSE, val |-> e]

\* normalizeKenyanPhone of part_000 and part_001
normalizeKenyanPhoneStrict(input) ==
    LET raw == RemoveChars(RemoveChars(Trim(input), Whitespace), {"-"})
        plusStripped == IF StartsWith(raw, <<"+">>) THEN Slice(raw, 1) ELSE raw
    IN IF raw = EmptyStr THEN Fail("PhoneRequired")
       ELSE IF StartsWith(plusStripped, <<"2", "5", "4">>) /\ Len(plusStripped) = 12
            THEN IF plusStripped[4] \notin {"7", "1"} THEN Fail("InvalidPhone")
                 ELSE Returns(plusStripped)
       ELSE IF LocalTen(plusStripped) THEN Returns(<<"2", "5", "4">> \o Slice(plusStripped, 1))
       ELSE IF MobileNine(plusStripped) THEN Returns(<<"2", "5", "4">> \o plusStripped)
       ELSE Fail("InvalidPhone")

\* normalizeKenyanPhone of auth.js: hyphens are kept, a bare nine-digit number is refused
normalizeKenyanPhoneLegacy(input) ==
    LET raw == RemoveChars(Trim(input), Whitespace)
        plusStripped == IF StartsWith(raw, <<"+">>) THEN Slice(raw, 1) ELSE raw
    IN IF raw = EmptyStr THEN Fail("PhoneRequired")
       ELSE IF StartsWith(plusStripped, <<"2", "5", "4">>)
            THEN LET rest == Slice(plusStripped, 3)
                 IN IF ~MobileNine(rest) THEN Fail("InvalidPhone")
                    ELSE Returns(<<"2", "5", "4">> \o rest)
       ELSE IF LocalTen(plusStripped) THEN Returns(<<"2", "5", "4">> \o Slice(plusStripped, 1))
       ELSE Fail("InvalidPhone")

\* A normalizer that knows the local form only: its own result is not an input it accepts.
normalizeKenyanPhoneLocalOnly(v, input) ==
    LET raw == RemoveChars(RemoveChars(Trim(input), Whitespace), {"-"})
        plusStripped == IF StartsWith(raw, <<"+">>) THEN Slice(raw, 1) ELSE raw
    IN IF raw = EmptyStr THEN Fail("PhoneRequired")
       ELSE IF LocalTen(plusStripped) THEN Returns(<<"2", "5", "4">> \o Slice(plusStripped, 1))
       ELSE Fail("InvalidPhone")

normalizeKenyanPhone(v, input) ==
    IF v = AuthJs THEN normalizeKenyanPhoneLegacy(input) ELSE normalizeKenyanPhoneStrict(input)

\* Inputs of the operations.
PhoneLocal == <<"0", "7", "1", "2", "3", "4", "5", "6", "7", "8">>
PhoneIntl == <<"+", "2", "5", "4", " ", "7", "1", "2", "-", "3", "4", "5", "6", "7", "8">>
PhoneBare == <<"7", "1", "2", "3", "4", "5", "6", "7", "8">>
PhoneWrongPrefix == <<"0", "8", "1", "2", "3", "4", "5", "6", "7", "8">>
PhoneBlank == <<" ">>
PhoneInputs == {EmptyStr, PhoneBlank, PhoneLocal, PhoneIntl, PhoneBare, PhoneWrongPrefix}
MpesaPhoneInputs == {PhoneLocal, PhoneBare, PhoneWrongPrefix}

PasswordShort == <<"s", "e", "c", "r", "e", "t", "1">>
PasswordLong == <<"s", "e", "c", "r", "e", "t", "1", "2">>
PasswordInputs == {EmptyStr, PasswordShort, PasswordLong}

IdValid == <<"1", "2", "3", "4", "5", "6">>
IdShort == <<"1", "2", "3", "4", "5">>
IdLetters == <<"1", "2", "3", "4", "5", "x">>
IdLong == <<"1", "2", "3", "4", "5", "6", "7", "8", "9", "0", "1">>
NationalIdInputs == {EmptyStr, IdValid, IdShort, IdLetters, IdLong}

\* The forms a user submits: one well-formed, the others with one field changed.
RegisterForm(ph, id, pw, photos) ==
    [phone |-> ph, national_id |-> id, password |-> pw, photos |-> photos]
RegisterForms ==
    {RegisterForm(PhoneLocal, IdValid, PasswordLong, photos) : photos \in BOOLEAN}
    \cup {RegisterForm(ph, IdValid, PasswordLong, FALSE) : ph \in PhoneInputs}
    \cup {RegisterForm(PhoneLocal, id, PasswordLong, FALSE) : id \in NationalIdInputs}
    \cup {RegisterForm(PhoneLocal, IdValid, pw, FALSE) : pw \in PasswordInputs}

LoginForm(ph, pw) == [phone |-> ph, password |-> pw]
LoginForms ==
    {LoginForm(ph, PasswordLong) : ph \in PhoneInputs}
    \cup {LoginForm(PhoneLocal, pw) : pw \in PasswordInputs}

\* The synchronous checks of Auth.register before its request: the body it would send, or the error
registerChecksStrict(phone, national_id, password) ==
    IF phone = EmptyStr \/ national_id = EmptyStr \/ password = EmptyStr THEN Fail("AllFieldsRequired")
    ELSE IF Len(password) < 8 THEN Fail("PasswordTooShort")
    ELSE LET n == normalizeKenyanPhoneStrict(phone)
         IN IF ~n.ok THEN n ELSE Returns(<<n.val, Trim(national_id)>>)

registerChecksLegacy(phone, national_id, password) ==
    LET n == normalizeKenyanPhoneLegacy(phone)
        nid == Trim(national_id)
    IN IF ~n.ok THEN n
       ELSE IF ~NationalIdOk(nid) THEN Fail("InvalidNationalId")
       ELSE IF Len(password) < 8 THEN Fail("PasswordTooShort")
       ELSE Returns(<<n.val, nid>>)

registerChecks(v, phone, national_id, password) ==
    IF v = AuthJs THEN registerChecksLegacy(phone, national_id, password)
    ELSE registerChecksStrict(phone, national_id, password)

\* The synchronous checks of Auth.login before its request
loginChecksStrict(phone, password) ==
    IF phone = EmptyStr \/ password = EmptyStr THEN Fail("PhoneAndPasswordRequired")
    ELSE LET n == normalizeKenyanPhoneStrict(phone)
         IN IF ~n.ok THEN n ELSE Returns(<<n.val>>)

loginChecksLegacy(phone, password) ==
    IF phone = EmptyStr \/ Trim(phone) = EmptyStr THEN Fail("PhoneRequired")
    ELSE IF password = EmptyStr THEN Fail("PasswordRequired")
    ELSE LET n == normalizeKenyanPhoneLegacy(phone)
         IN IF ~n.ok THEN n ELSE Returns(<<n.val>>)

loginChecks(v, phone, password) ==
    IF v = AuthJs THEN loginChecksLegacy(phone, password) ELSE loginChecksStrict(phone, password)

(***************************************************************************)
(* The API client.                                                         *)
(***************************************************************************)
Callers == {"c1", "c2"}
Attempts == {"p1", "p2"}

Statuses == {200, 401, 403, 500}
\* res.ok
ResOk(status) == status >= 200 /\ status < 300

\* A response body: its text is empty, valid JSON or other text; "access" is the
\* access field of a JSON body (<<>> when absent or empty).
Body(kind, access) == [text |-> kind, access |-> access]
Bodies == {Body("empty", NoToken), Body("nonjson", NoToken), Body("json", NoToken)}
            \cup {Body("json", t) : t \in SessionTokens}

\* data?.access, also for the { detail: text } object auth.js builds from a non-JSON body
AccessOf(body) == IF body.text = "json" THEN body.access ELSE NoToken

NoCall == [op |-> "none", via |-> "none", auth |-> FALSE, bearer |-> NoToken,
           body |-> <<>>, amount |-> 0, ref |-> ""]
Request(op, via, auth, bearer, body, amount, ref) ==
    [op |-> op, via |-> via, auth |-> auth, bearer |-> bearer,
     body |-> body, amount |-> amount, ref |-> ref]

\* The response an operation was resumed with (none: it was not resumed by a response).
NoResponse == [via |-> "none", status |-> 0, body |-> Body("empty", NoToken)]
Response(via, status, body) == [via |-> via, status |-> status, body |-> body]

\* What the last operation did: its name, its caller, what it returned or threw,
\* whether it handed a request to the network, and the response it was resumed with.
Did(op, by, ret, sent) == [op |-> op, by |-> by, ret |-> ret, sent |-> sent, got |-> NoResponse]
DidWith(op, by, ret, got) == [op |-> op, by |-> by, ret |-> ret, sent |-> FALSE, got |-> got]

\* api up to its fetch, part_000 and part_001: go with a bearer, or fail before any request.
apiBeforeFetchStrict(auth, store, c) ==
    IF auth
    THEN LET token == getToken(store) IN
         IF token = EmptyStr THEN [go |-> FALSE, err |-> "NotAuthenticated", store |-> store, bearer |-> NoToken]
         ELSE IF isTokenExpiredStrict(token, c)
              THEN [go |-> FALSE, err |-> "SessionExpired", store |-> removeToken(store), bearer |-> NoToken]
              ELSE [go |-> TRUE, err |-> "", store |-> store, bearer |-> token]
    ELSE [go |-> TRUE, err |-> "", store |-> store, bearer |-> NoToken]

\* api up to its fetch, auth.js: without a token the request goes out with no Authorization header.
apiBeforeFetchLegacy(auth, store, c) ==
    IF auth
    THEN LET token == getToken(store) IN
         IF token # EmptyStr
         THEN IF isTokenExpiredLenient(token, c)
              THEN [go |-> FALSE, err |-> "SessionExpired", store |-> removeToken(store), bearer |-> NoToken]
              ELSE [go |-> TRUE, err |-> "", store |-> store, bearer |-> token]
         ELSE [go |-> TRUE, err |-> "", store |-> store, bearer |-> NoToken]
    ELSE [go |-> TRUE, err |-> "", store |-> store, bearer |-> NoToken]

apiBeforeFetch(v, auth, store, c) ==
    IF v = AuthJs THEN apiBeforeFetchLegacy(auth, store, c) ELSE apiBeforeFetchStrict(auth, store, c)

\* api after its fetch resolved, part_000 and part_001: JSON.parse is not guarded.
apiAfterFetchStrict(status, body, store) ==
    IF body.text = "nonjson" THEN [ok |-> FALSE, err |-> "SyntaxError", store |-> store]
    ELSE IF ~ResOk(status)
         THEN [ok |-> FALSE, err |-> "ApiError",
               store |-> IF status = 401 \/ status = 403 THEN removeToken(store) ELSE store]
         ELSE [ok |-> TRUE, err |-> "", store |-> store]

\* api after its fetch resolved, auth.js: a body that does not parse becomes { detail: text }.
apiAfterFetchLegacy(status, body, store) ==
    IF ~ResOk(status)
    THEN [ok |-> FALSE, err |-> "ApiError",
          store |-> IF status = 401 \/ status = 403 THEN removeToken(store) ELSE store]
    ELSE [ok |-> TRUE, err |-> "", store |-> store]

\* An api that erases the token on every non-success status.
apiAfterFetchErasingOnError(v, status, body, store) ==
    IF ~ResOk(status) THEN [ok |-> FALSE, err |-> "ApiError", store |-> removeToken(store)]
    ELSE [ok |-> TRUE, err |-> "", store |-> store]

apiAfterFetch(v, status, body, store) ==
    IF v = AuthJs THEN apiAfterFetchLegacy(status, body, store)
    ELSE apiAfterFetchStrict(status, body, store)

\* api when its fetch rejected: auth.js throws its own error, the others let the transport's through.
apiFetchFailed(v) == IF v = AuthJs THEN "NetworkError" ELSE "TransportError"

\* xhr.onload of apiFormData (part_001): the token is never touched.
apiFormDataOnLoad(status, body, store) ==
    IF ResOk(status) THEN [ok |-> TRUE, err |-> "", store |-> store]
    ELSE [ok |-> FALSE, err |-> "ApiError", store |-> store]

\* What an operation does with data once api returned it: the error it throws
\* ("" for none) and the token storage afterwards.
loginAfterApi(body, store) ==
    IF AccessOf(body) = EmptyStr THEN [err |-> "LoginFailed", store |-> store]
    ELSE [err |-> "", store |-> setToken(store, AccessOf(body))]

\* A registration that accepts the token of its response in every version.
registerAfterApiStoring(v, body, store) ==
    IF AccessOf(body) # EmptyStr
    THEN [err |-> "", store |-> setToken(store, AccessOf(body))]
    ELSE [err |-> "", store |-> store]

\* auth.js stores a token that the registration response carries; part_000 and part_001 do not.
registerAfterApi(v, body, store) ==
    IF v = AuthJs /\ AccessOf(body) # EmptyStr
    THEN [err |-> "", store |-> setToken(store, AccessOf(body))]
    ELSE [err |-> "", store |-> store]

\* part_001 with photos: data.verification_status throws when the body was empty (data is null).
registerAfterFormData(body, store) ==
    IF body.text = "empty" THEN [err |-> "TypeError", store |-> store]
    ELSE [err |-> "", store |-> store]

(***************************************************************************)
(* The payment adapter.                                                    *)
(***************************************************************************)
References == {"R1", "R2"}

\* amount_kes after Number(): a finite number in thousandths, NaN or Infinity
Num(milli) == [kind |-> "num", milli |-> milli]
NotANumber == [kind |-> "nan", milli |-> 0]
Infinite == [kind |-> "inf", milli |-> 0]
AmountInputs == {NotANumber, Infinite, Num(0), Num(-200000), Num(200000), Num(125)}
KeyInputs == {"", "pk_test"}

\* The calls a page makes: one well-formed (whose openIframe may throw), the others with one argument changed.
PayCall(key, amount, openThrows) == [key |-> key, amount |-> amount, openThrows |-> openThrows]
PayCalls ==
    {PayCall("pk_test", Num(200000), th) : th \in BOOLEAN}
    \cup {PayCall(k, Num(200000), FALSE) : k \in KeyInputs}
    \cup {PayCall("pk_test", a, FALSE) : a \in AmountInputs}

\* A conversion that drops the fraction of a minor unit: Math.floor(amt * 100)
MinorUnitsTruncated(milli) == milli \div 10

\* Math.round(amt * 100) for amt = milli / 1000
MinorUnits(milli) == (milli + 5) \div 10

\* the argument the provider passes to callback
NullResponse == [t |-> "null", has |-> FALSE, reference |-> ""]
CallbackResponses ==
    {NullResponse, [t |-> "object", has |-> FALSE, reference |-> ""],
     [t |-> "object", has |-> TRUE, reference |-> ""]}
    \cup {[t |-> "object", has |-> TRUE, reference |-> r] : r \in References}

\* A provider event: openIframe throwing, the completion callback with its argument, onClose.
NoEvent == [ev |-> "none", arg |-> NullResponse]
Event(ev, arg) == [ev |-> ev, arg |-> arg]

\* The promise of one payServiceFeeInline call, with what was passed to setup
\* and the first event the provider delivered.
Promise(st, val, setups, minor, first) ==
    [st |-> st, val |-> val, setups |-> setups, minor |-> minor, first |-> first]
NoAttempt == Promise("idle", "", 0, 0, NoEvent)

Settled(pr) == pr.st \in {"resolved", "rejected"}

\* resolve(v) and reject(e) of a promise: only the first one counts
resolve(pr, v) == IF pr.st = "pending" THEN [pr EXCEPT !.st = "resolved", !.val = v] ELSE pr
reject(pr, e) == IF pr.st = "pending" THEN [pr EXCEPT !.st = "rejected", !.val = e] ELSE pr

\* the first event of an attempt is kept
Noted(pr, e) == IF pr.first = NoEvent THEN [pr EXCEPT !.first = e] ELSE pr

\* the executor of payServiceFeeInline: the three guards, setup, openIframe
payServiceFeeInlineStart(loaded, key, amount, openThrows) ==
    LET fresh == Promise("pending", "", 0, 0, NoEvent) IN
    IF ~loaded THEN reject(fresh, "ScriptNotLoaded")
    ELSE IF key = "" THEN reject(fresh, "MissingPublicKey")
    ELSE IF amount.kind # "num" \/ amount.milli <= 0 THEN reject(fresh, "InvalidAmount")
    ELSE LET opened == [fresh EXCEPT !.setups = 1, !.minor = MinorUnits(amount.milli)]
         IN IF openThrows
            THEN reject(Noted(opened, Event("openFailed", NullResponse)), "FailedToOpen")
            ELSE opened

\* A callback that trusts every completion notification.
payCallbackTrusting(pr, response) == resolve(pr, response.reference)

\* callback(response)
payCallback(pr, response) ==
    IF response.t = "null" \/ response.reference = ""
    THEN reject(pr, "MissingReference")
    ELSE resolve(pr, response.reference)

\* An onClose that rejects whatever happened before.
payOnCloseOverriding(pr) == [pr EXCEPT !.st = "rejected", !.val = "WindowClosed"]

\* onClose()
payOnClose(pr) == reject(pr, "WindowClosed")

\* A callback that marks the payment settled as soon as the provider reports a reference.
settledAfterCallbackMarks(settled, response) ==
    IF response.reference # "" THEN settled \cup {response.reference} ELSE settled

\* The callback leaves the settled payments alone: "Do not mark loan complete here."
settledAfterCallback(settled, response) == settled

(***************************************************************************)
(* The Loan module: the service fee.  An amount is what Number(amount)     *)
(* gives: a finite number in thousandths, NaN or Infinity; labels are      *)
(* written with "-" for the dash of the source.                            *)
(***************************************************************************)
Bracket(min, max, fee, label) == [min |-> min, max |-> max, fee |-> fee, label |-> label]

\* A table whose third band reaches the first amount of the fourth.
BracketsOverlapping ==
    << Bracket(1000, 1000, 200, "KES 1,000"),
       Bracket(2000, 2000, 290, "KES 2,000"),
       Bracket(3000, 6000, 680, "KES 3,000-5,000"),
       Bracket(6000, 11000, 1200, "KES 6,000-11,000"),
       Bracket(12000, 22000, 2200, "KES 12,000-22,000"),
       Bracket(23000, 32000, 3200, "KES 23,000-32,000"),
       Bracket(33000, 42000, 4200, "KES 33,000-42,000"),
       Bracket(43000, 52000, 5200, "KES 43,000-52,000"),
       Bracket(53000, 60000, 6000, "KES 53,000-60,000") >>

\* const brackets = [...]
Brackets ==
    << Bracket(1000, 1000, 200, "KES 1,000"),
       Bracket(2000, 2000, 290, "KES 2,000"),
       Bracket(3000, 5000, 680, "KES 3,000-5,000"),
       Bracket(6000, 11000, 1200, "KES 6,000-11,000"),
       Bracket(12000, 22000, 2200, "KES 12,000-22,000"),
       Bracket(23000, 32000, 3200, "KES 23,000-32,000"),
       Bracket(33000, 42000, 4200, "KES 33,000-42,000"),
       Bracket(43000, 52000, 5200, "KES 43,000-52,000"),
       Bracket(53000, 60000, 6000, "KES 53,000-60,000") >>

\* Number.isFinite(a) && Math.floor(a) === a
IsWhole(a) == a.kind = "num" /\ a.milli % 1000 = 0

\* brackets.find(x => a >= x.min && a <= x.max): the index of the first match, 0 for undefined
FindBracket(n) ==
    LET hits == {i \in 1..Len(Brackets) : n >= Brackets[i].min /\ n <= Brackets[i].max}
    IN IF hits = {} THEN 0 ELSE CHOOSE i \in hits : \A j \in hits : i <= j

\* A fee function that checks the range before it checks for a whole number.
computeServiceFeeRangeFirst(a) ==
    IF a.kind # "num" THEN Fail("WholeNumber")
    ELSE IF a.milli < 1000000 THEN Fail("BelowMinimum")
    ELSE IF a.milli > 60000000 THEN Fail("AboveMaximum")
    ELSE IF ~IsWhole(a) THEN Fail("WholeNumber")
    ELSE LET b == FindBracket(a.milli \div 1000)
         IN IF b = 0 THEN Fail("Unsupported")
            ELSE Returns([fee |-> Brackets[b].fee, label |-> Brackets[b].label])

\* Loan.computeServiceFee(amount)
computeServiceFee(a) ==
    IF ~IsWhole(a) THEN Fail("WholeNumber")
    ELSE LET n == a.milli \div 1000 IN
         IF n < 1000 THEN Fail("BelowMinimum")
         ELSE IF n > 60000 THEN Fail("AboveMaximum")
         ELSE LET b == FindBracket(n)
              IN IF b = 0 THEN Fail("Unsupported")
                 ELSE Returns([fee |-> Brackets[b].fee, label |-> Brackets[b].label])

(***************************************************************************)
(* State machine.                                                          *)
(***************************************************************************)
NoProbe == [fn |-> "none", arg |-> <<>>, out |-> "none"]

Init ==
    /\ variant \in Variants
    /\ access_token \in {NoToken} \cup SessionTokens
    /\ clock = 0
    /\ calls = [s \in Callers |-> NoCall]
    /\ pays = [p \in Attempts |-> NoAttempt]
    /\ provider \in BOOLEAN
    /\ verified = {}
    /\ last = Did("init", "-", "", FALSE)
    /\ probe = NoProbe

\* Time passes.
Tick ==
    /\ clock < MaxClock
    /\ clock' = clock + 1
    /\ last' = Did("tick", "-", "", FALSE)
    /\ UNCHANGED <<variant, access_token, calls, pays, provider, verified, probe>>

\* The provider's script finishes loading.
ProviderLoads ==
    /\ ~provider
    /\ provider' = TRUE
    /\ last' = Did("providerLoads", "-", "", FALSE)
    /\ UNCHANGED <<variant, access_token, clock, calls, pays, verified, probe>>

\* Auth.isAuthenticated()
IsAuthenticated ==
    LET token == getToken(access_token) IN
    /\ IF token = EmptyStr
       THEN access_token' = access_token /\ last' = Did("isAuthenticated", "-", "false", FALSE)
       ELSE IF isTokenExpired(variant, token, clock)
            THEN /\ access_token' = removeToken(access_token)
                 /\ last' = Did("isAuthenticated", "-", "false", FALSE)
            ELSE /\ access_token' = access_token
                 /\ last' = Did("isAuthenticated", "-", "true", FALSE)
    /\ UNCHANGED <<variant, clock, calls, pays, provider, verified, probe>>

\* Auth.logout()
Logout ==
    /\ access_token' = removeToken(access_token)
    /\ last' = Did("logout", "-", "", FALSE)
    /\ UNCHANGED <<variant, clock, calls, pays, provider, verified, probe>>

\* api(path, {auth, body}) up to and including its fetch, called by operation op of caller s
ApiCall(s, op, auth, body, amount, ref) ==
    LET pre == apiBeforeFetch(variant, auth, access_token, clock) IN
    /\ calls[s] = NoCall
    /\ access_token' = pre.store
    /\ IF pre.go
       THEN /\ calls' = [calls EXCEPT ![s] = Request(op, "json", auth, pre.bearer, body, amount, ref)]
            /\ last' = Did(op, s, "pending", TRUE)
       ELSE /\ calls' = calls
            /\ last' = Did(op, s, pre.err, FALSE)
    /\ UNCHANGED <<variant, clock, pays, provider, verified, probe>>

\* An operation that throws before it calls api
Refused(s, op, err) ==
    /\ calls[s] = NoCall
    /\ last' = Did(op, s, err, FALSE)
    /\ UNCHANGED <<variant, access_token, clock, calls, pays, provider, verified, probe>>

\* apiFormData(path, {formData, auth}) up to xhr.send (part_001)
ApiFormDataCall(s, op, auth, body) ==
    /\ calls[s] = NoCall
    /\ calls' = [calls EXCEPT ![s] =
                    Request(op, "form", auth, IF auth THEN getToken(access_token) ELSE NoToken, body, 0, "")]
    /\ last' = Did(op, s, "pending", TRUE)
    /\ UNCHANGED <<variant, access_token, clock, pays, provider, verified, probe>>

\* Auth.apiFormData(path, {formData, auth}) called by a page (part_001)
ApiFormData(s, auth) ==
    /\ variant = Part001
    /\ ApiFormDataCall(s, "apiFormData", auth, <<>>)

\* Auth.register({phone, national_id, password, photos})
Register(s, phone, national_id, password, photos) ==
    LET chk == registerChecks(variant, phone, national_id, password) IN
    IF ~chk.ok THEN Refused(s, "register", chk.val)
    ELSE IF variant = Part001 /\ photos THEN ApiFormDataCall(s, "register", FALSE, chk.val)
    ELSE ApiCall(s, "register", FALSE, chk.val, 0, "")

\* Auth.login({phone, password})
Login(s, phone, password) ==
    LET chk == loginChecks(variant, phone, password) IN
    IF ~chk.ok THEN Refused(s, "login", chk.val)
    ELSE ApiCall(s, "login", FALSE, chk.val, 0, "")

\* Auth.me()
Me(s) == ApiCall(s, "me", TRUE, <<>>, 0, "")

\* Auth.getVerificationStatus() (part_001)
GetVerificationStatus(s) ==
    /\ variant = Part001
    /\ ApiCall(s, "getVerificationStatus", TRUE, <<>>, 0, "")

\* Loan.createLoan({amount, mpesa_phone})
CreateLoan(s, amount, mpesa_phone) ==
    LET mp == normalizeKenyanPhone(variant, mpesa_phone) IN
    IF ~mp.ok THEN Refused(s, "createLoan", mp.val)
    ELSE ApiCall(s, "createLoan", TRUE, <<mp.val>>, amount, "")

\* Loan.getMyActiveLoan()
GetMyActiveLoan(s) == ApiCall(s, "getMyActiveLoan", TRUE, <<>>, 0, "")

\* Loan.initServiceFeePayment({loan_id})
InitServiceFeePayment(s) == ApiCall(s, "initServiceFeePayment", TRUE, <<>>, 0, "")

\* Loan.verifyServiceFeePayment({reference})
VerifyServiceFeePayment(s, reference) ==
    ApiCall(s, "verifyServiceFeePayment", TRUE, <<>>, 0, reference)

\* what the operation does with the data api returned
afterApi(v, r, body, store) ==
    CASE r.op = "login" -> loginAfterApi(body, store)
      [] r.op = "register" -> registerAfterApi(v, body, store)
      [] OTHER -> [err |-> "", store |-> store]

\* The response of caller s's request arrives: the rest of api (or xhr.onload),
\* then the rest of the operation that awaited it.
Respond(s, status, body) ==
    LET r == calls[s]
        a == IF r.via = "form" THEN apiFormDataOnLoad(status, body, access_token)
             ELSE apiAfterFetch(variant, status, body, access_token)
        o == IF r.via = "form" /\ r.op = "register" THEN registerAfterFormData(body, a.store)
             ELSE afterApi(variant, r, body, a.store)
    IN /\ r # NoCall
       /\ calls' = [calls EXCEPT ![s] = NoCall]
       /\ IF ~a.ok
          THEN /\ access_token' = a.store
               /\ last' = DidWith(r.op, s, a.err, Response(r.via, status, body))
               /\ verified' = verified
          ELSE /\ access_token' = o.store
               /\ last' = DidWith(r.op, s, IF o.err = "" THEN "ok" ELSE o.err,
                                   Response(r.via, status, body))
               /\ verified' = IF r.op = "verifyServiceFeePayment" /\ o.err = ""
                              THEN verified \cup {r.ref} ELSE verified
       /\ UNCHANGED <<variant, clock, pays, provider, probe>>

\* An api that answers a failed fetch by sending the request again.
NetworkFailureRetrying(s) ==
    LET r == calls[s] IN
    /\ r # NoCall
    /\ calls' = calls
    /\ last' = Did(r.op, s, "pending", TRUE)
    /\ UNCHANGED <<variant, access_token, clock, pays, provider, verified, probe>>

\* No response arrives: fetch rejects, or xhr.onerror fires.
NetworkFailure(s) ==
    LET r == calls[s] IN
    /\ r # NoCall
    /\ calls' = [calls EXCEPT ![s] = NoCall]
    /\ last' = Did(r.op, s, IF r.via = "form" THEN "NetworkError" ELSE apiFetchFailed(variant), FALSE)
    /\ UNCHANGED <<variant, access_token, clock, pays, provider, verified, probe>>

\* xhr.ontimeout of apiFormData
UploadTimeout(s) ==
    LET r == calls[s] IN
    /\ r # NoCall
    /\ r.via = "form"
    /\ calls' = [calls EXCEPT ![s] = NoCall]
    /\ last' = Did(r.op, s, "Timeout", FALSE)
    /\ UNCHANGED <<variant, access_token, clock, pays, provider, verified, probe>>

\* Paystack.payServiceFeeInline({...}): a new attempt in slot p
PayServiceFeeInline(p, key, amount, openThrows) ==
    /\ pays[p].st # "pending"
    /\ pays' = [pays EXCEPT ![p] = payServiceFeeInlineStart(provider, key, amount, openThrows)]
    /\ last' = Did("payServiceFeeInline", p, pays'[p].val, FALSE)
    /\ UNCHANGED <<variant, access_token, clock, calls, provider, verified, probe>>

\* Paystack.payServiceFeeInline({...}) with well-formed arguments and a provider
\* whose openIframe invokes callback(response) and then throws.
PayServiceFeeInlineOpening(p, response) ==
    LET opened == payServiceFeeInlineStart(provider, "pk_test", Num(200000), FALSE)
        called == payCallback(Noted(opened, Event("callback", response)), response)
    IN /\ pays[p].st # "pending"
       /\ provider
       /\ pays' = [pays EXCEPT ![p] = reject(called, "FailedToOpen")]
       /\ verified' = settledAfterCallback(verified, response)
       /\ last' = Did("payServiceFeeInline", p, pays'[p].val, FALSE)
       /\ UNCHANGED <<variant, access_token, clock, calls, provider, probe>>

\* The provider invokes callback(response) of attempt p's widget.
PayCallback(p, response) ==
    /\ pays[p].setups > 0
    /\ pays' = [pays EXCEPT ![p] = payCallback(Noted(pays[p], Event("callback", response)), response)]
    /\ verified' = settledAfterCallback(verified, response)
    /\ last' = Did("payCallback", p, pays'[p].val, FALSE)
    /\ UNCHANGED <<variant, access_token, clock, calls, provider, probe>>

\* The user closes attempt p's widget: onClose().
PayOnClose(p) ==
    /\ pays[p].setups > 0
    /\ pays' = [pays EXCEPT ![p] = payOnClose(Noted(pays[p], Event("close", NullResponse)))]
    /\ last' = Did("payOnClose", p, pays'[p].val, FALSE)
    /\ UNCHANGED <<variant, access_token, clock, calls, provider, verified, probe>>

LoanAmounts == {1000, 1500}

\* One page: one caller awaiting the backend, one payment attempt.
PageCallers == {"c1"}
PageAttempts == {"p1"}

\* The session and API operations of Auth and Loan.
Next ==
    \/ Tick
    \/ IsAuthenticated
    \/ Logout
    \/ \E s \in PageCallers, f \in RegisterForms :
          Register(s, f.phone, f.national_id, f.password, f.photos)
    \/ \E s \in PageCallers, f \in LoginForms : Login(s, f.phone, f.password)
    \/ \E s \in PageCallers : Me(s)
    \/ \E s \in PageCallers : GetVerificationStatus(s)
    \/ \E s \in PageCallers, auth \in BOOLEAN : ApiFormData(s, auth)
    \/ \E s \in PageCallers, a \in LoanAmounts, ph \in MpesaPhoneInputs : CreateLoan(s, a, ph)
    \/ \E s \in PageCallers : GetMyActiveLoan(s)
    \/ \E s \in PageCallers : InitServiceFeePayment(s)
    \/ \E s \in PageCallers, r \in References : VerifyServiceFeePayment(s, r)
    \/ \E s \in PageCallers, st \in Statuses, b \in Bodies : Respond(s, st, b)
    \/ \E s \in PageCallers : NetworkFailure(s)
    \/ \E s \in PageCallers : UploadTimeout(s)

Spec == Init /\ [][Next]_vars

\* The payment flow: the adapter, and the Loan calls that bracket it.
NextPay ==
    \/ Tick
    \/ ProviderLoads
    \/ Logout
    \/ \E p \in PageAttempts, c \in PayCalls : PayServiceFeeInline(p, c.key, c.amount, c.openThrows)
    \/ \E p \in PageAttempts, resp \in CallbackResponses : PayServiceFeeInlineOpening(p, resp)
    \/ \E p \in PageAttempts, resp \in CallbackResponses : PayCallback(p, resp)
    \/ \E p \in PageAttempts : PayOnClose(p)
    \/ \E s \in PageCallers : InitServiceFeePayment(s)
    \/ \E s \in PageCallers, r \in References : VerifyServiceFeePayment(s, r)
    \/ \E s \in PageCallers, st \in Statuses, b \in Bodies : Respond(s, st, b)
    \/ \E s \in PageCallers : NetworkFailure(s)

SpecPay == Init /\ [][NextPay]_vars

\* A page that starts payments without waiting for the previous one to end.
NextPayTwice ==
    \/ ProviderLoads
    \/ \E p \in Attempts, c \in PayCalls : PayServiceFeeInline(p, c.key, c.amount, c.openThrows)
    \/ \E p \in Attempts, resp \in CallbackResponses : PayCallback(p, resp)
    \/ \E p \in Attempts : PayOnClose(p)

SpecPayTwice == Init /\ [][NextPayTwice]_vars

\* A page with two asynchronous operations in flight at once: logins, authenticated
\* reads and logout, whose requests and responses interleave.
NextTwo ==
    \/ Tick
    \/ IsAuthenticated
    \/ Logout
    \/ \E s \in Callers : Login(s, PhoneLocal, PasswordLong)
    \/ \E s \in Callers : Me(s)
    \/ \E s \in Callers, st \in Statuses, b \in Bodies : Respond(s, st, b)
    \/ \E s \in Callers : NetworkFailure(s)

SpecTwo == Init /\ [][NextTwo]_vars

\* The pure functions, each applied once to an input drawn at the start.
InitFn ==
    /\ variant \in Variants
    /\ access_token = NoToken
    /\ clock \in 0..MaxClock
    /\ calls = [s \in Callers |-> NoCall]
    /\ pays = [p \in Attempts |-> NoAttempt]
    /\ provider = FALSE
    /\ verified = {}
    /\ last = Did("init", "-", "", FALSE)
    /\ probe \in {[fn |-> "isTokenExpired", arg |-> t, out |-> "none"] : t \in AllTokens \cup {NoToken}}

\* isTokenExpired(token) at the current time
ApplyIsTokenExpired ==
    /\ probe.fn = "isTokenExpired"
    /\ probe.out = "none"
    /\ probe' = [probe EXCEPT !.out = IF isTokenExpired(variant, probe.arg, clock) THEN "true" ELSE "false"]
    /\ UNCHANGED <<variant, access_token, clock, calls, pays, provider, verified, last>>

NextFn == ApplyIsTokenExpired

SpecFn == InitFn /\ [][NextFn]_vars

\* The amounts computeServiceFee is probed with: every whole amount up to
\* MaxFeeAmount, and amounts that are negative, fractional or not finite.
FeeAmounts ==
    {Num(n * 1000) : n \in 0..MaxFeeAmount}
    \cup {NotANumber, Infinite, Num(-1000000), Num(999500), Num(1500500), Num(60000500), Num(-500)}

\* The result of a function under test: not applied yet, or what it returned or threw
NotApplied == [done |-> FALSE, res |-> Fail("none")]
Applied(res) == [done |-> TRUE, res |-> res]

InitFee ==
    /\ variant = Part001
    /\ access_token = NoToken
    /\ clock = 0
    /\ calls = [s \in Callers |-> NoCall]
    /\ pays = [p \in Attempts |-> NoAttempt]
    /\ provider = FALSE
    /\ verified = {}
    /\ last = Did("init", "-", "", FALSE)
    /\ probe \in {[fn |-> "computeServiceFee", arg |-> a, out |-> NotApplied] : a \in FeeAmounts}

\* Loan.computeServiceFee(amount)
ApplyComputeServiceFee ==
    /\ probe.fn = "computeServiceFee"
    /\ ~probe.out.done
    /\ probe' = [probe EXCEPT !.out = Applied(computeServiceFee(probe.arg))]
    /\ UNCHANGED <<variant, access_token, clock, calls, pays, provider, verified, last>>

NextFee == ApplyComputeServiceFee

SpecFee == InitFee /\ [][NextFee]_vars

\* The strings normalizeKenyanPhone is probed with: an optional pad, "+" signs, a
\* lead and a subscriber part that is well-formed, too short, too long, wrongly
\* prefixed, or holds spaces, hyphens or letters.
PhonePads == {<<>>, <<" ">>}
PhonePluses == {<<>>, <<"+">>, <<"+", "+">>}
PhoneLeads == {<<>>, <<"0">>, <<"2", "5", "4">>, <<"2", "5", "5">>}
PhoneSubscribers ==
    { <<>>,
      <<"7", "1", "2", "3", "4", "5", "6", "7", "8">>,
      <<"1", "1", "2", "3", "4", "5", "6", "7", "8">>,
      <<"8", "1", "2", "3", "4", "5", "6", "7", "8">>,
      <<"7", "1", "2", "3", "4", "5", "6", "7">>,
      <<"7", "1", "2", "3", "4", "5", "6", "7", "8", "9">>,
      <<"7", "1", "2", "-", "3", "4", "5", "-", "6", "7", "8">>,
      <<"7", "1", "2", " ", "3", "4", "5", " ", "6", "7", "8">>,
      <<"7", "1", "2", "a", "b", "c", "6", "7", "8">> }
PhoneProbes ==
    {pad \o plus \o lead \o sub \o pad :
        pad \in PhonePads, plus \in PhonePluses, lead \in PhoneLeads, sub \in PhoneSubscribers}

InitPhone ==
    /\ variant \in Variants
    /\ access_token = NoToken
    /\ clock = 0
    /\ calls = [s \in Callers |-> NoCall]
    /\ pays = [p \in Attempts |-> NoAttempt]
    /\ provider = FALSE
    /\ verified = {}
    /\ last = Did("init", "-", "", FALSE)
    /\ probe \in {[fn |-> "normalizeKenyanPhone", arg |-> x, out |-> NotApplied, again |-> NotApplied] :
                     x \in PhoneProbes}

\* normalizeKenyanPhone(input)
ApplyNormalizeKenyanPhone ==
    /\ probe.fn = "normalizeKenyanPhone"
    /\ ~probe.out.done
    /\ probe' = [probe EXCEPT !.out = Applied(normalizeKenyanPhone(variant, probe.arg))]
    /\ UNCHANGED <<variant, access_token, clock, calls, pays, provider, verified, last>>

\* normalizeKenyanPhone applied to the value it returned
ApplyNormalizeKenyanPhoneAgain ==
    /\ probe.fn = "normalizeKenyanPhone"
    /\ probe.out.done
    /\ probe.out.res.ok
    /\ ~probe.again.done
    /\ probe' = [probe EXCEPT !.again = Applied(normalizeKenyanPhone(variant, probe.out.res.val))]
    /\ UNCHANGED <<variant, access_token, clock, calls, pays, provider, verified, last>>

NextPhone ==
    \/ ApplyNormalizeKenyanPhone
    \/ ApplyNormalizeKenyanPhoneAgain

SpecPhone == InitPhone /\ [][NextPhone]_vars

(***************************************************************************)
(* Properties.                                                             *)
(***************************************************************************)
PayOps == {"payServiceFeeInline", "payCallback", "payOnClose"}

\* C1: a reference becomes settled only in the step in which the response to a
\* Loan.verifyServiceFeePayment request carrying that reference arrives with a
\* success status; a step of the payment adapter (start, callback, close) sends no
\* request and leaves the pending calls, the token and the settled references unchanged.
C1_SettlementOnlyByBackendVerification ==
    [][ /\ \A r \in verified' \ verified :
              \E s \in Callers :
                 /\ calls[s].op = "verifyServiceFeePayment"
                 /\ calls[s].ref = r
                 /\ calls'[s] = NoCall
                 /\ last'.by = s
                 /\ last'.ret = "ok"
                 /\ ResOk(last'.got.status)
        /\ (\E p \in Attempts : pays'[p] # pays[p])
              => /\ last'.op \in PayOps
                 /\ ~last'.sent
                 /\ UNCHANGED <<calls, access_token, verified>>
      ]_vars

\* C1 witness: the adapter has just resolved with R1, which is not settled, while
\* R2, verified by the backend earlier, is.
C1_Witness ==
    /\ last.op = "payCallback"
    /\ pays["p1"].st = "resolved"
    /\ pays["p1"].val = "R1"
    /\ verified = {"R2"}

\* C2: for an attempt that reached setup (provider loaded, key present, amount
\* finite and positive): a first event that is a callback carrying a non-empty
\* reference R leaves the promise resolved with R; a first event that is a callback
\* with no payload or no reference leaves it rejected with the missing-reference
\* reason; a first event that is the user's close leaves it rejected with the
\* window-closed reason, which is another reason.
C2_FirstEventDecides ==
    \A p \in Attempts :
       LET pr == pays[p] IN
       /\ (pr.first.ev = "callback" /\ pr.first.arg.reference # "")
             => (pr.setups = 1 /\ pr.st = "resolved" /\ pr.val = pr.first.arg.reference)
       /\ (pr.first.ev = "callback" /\ pr.first.arg.reference = "")
             => (pr.st = "rejected" /\ pr.val = "MissingReference")
       /\ (pr.first.ev = "close")
             => (pr.st = "rejected" /\ pr.val = "WindowClosed" /\ pr.val # "MissingReference")

\* C2 witness: the callback came first with R1, the user closed the widget
\* afterwards, and the promise is resolved with R1.
C2_Witness ==
    /\ last.op = "payOnClose"
    /\ pays["p1"].first = Event("callback", [t |-> "object", has |-> TRUE, reference |-> "R1"])
    /\ pays["p1"].st = "resolved"
    /\ pays["p1"].val = "R1"

\* The operations that call api with auth required.
AuthOps == {"me", "getVerificationStatus", "createLoan", "getMyActiveLoan",
            "initServiceFeePayment", "verifyServiceFeePayment"}

PhoneCanonical == <<"2", "5", "4", "7", "1", "2", "3", "4", "5", "6", "7", "8">>

\* A step in which caller s calls api with auth required
AuthApiCall(s) ==
    \E op \in AuthOps, body \in {<<>>, <<PhoneCanonical>>}, a \in {0} \cup LoanAmounts,
       r \in {""} \cup References : ApiCall(s, op, TRUE, body, a, r)

\* A step in which the response to caller s's login request makes login succeed
LoginSucceeds(s) ==
    /\ calls[s].op = "login"
    /\ calls'[s] = NoCall
    /\ last'.op = "login"
    /\ last'.by = s
    /\ last'.ret = "ok"

\* Expiry as the specification states it: a token is expired unless it has exactly
\* three dot-separated segments, its second segment decodes to JSON with an exp
\* claim, and now < exp - 30 s.
ExpiredAt(token, c) ==
    LET parts == Split(token, ".") IN
    \/ Len(parts) # 3
    \/ LET decoded == Atob(ReplaceChar(ReplaceChar(parts[2], "-", "+"), "_", "/")) IN
       \/ ~decoded.ok
       \/ LET parsed == JsonParse(decoded.val) IN
          \/ ~parsed.ok
          \/ parsed.val.exp = <<>>
          \/ DateNow(c) >= (parsed.val.exp[1] - 30) * 1000

\* C3: once a response with status 401 or 403 has been handled by api (the JSON
\* path), the stored token is empty, whatever the body and whatever was stored.
C3_UnauthorizedErasesToken ==
    (last.got.via = "json" /\ last.got.status \in {401, 403}) => access_token = NoToken

\* C4: Auth.isAuthenticated() returns true iff a token is stored and not expired, and
\* then leaves it unchanged; with an expired token stored it returns false and erases
\* it, and a call of api with auth required fails without a request and erases it;
\* an empty storage becomes non-empty only by a login that succeeds.
C4_ExpiredSessionIsCleared ==
    [][ /\ IsAuthenticated =>
              /\ (last'.ret = "true") <=> (access_token # NoToken /\ ~ExpiredAt(access_token, clock))
              /\ (last'.ret = "true") => access_token' = access_token
              /\ (access_token # NoToken /\ ExpiredAt(access_token, clock))
                    => (last'.ret = "false" /\ access_token' = NoToken)
        /\ \A s \in Callers :
              (AuthApiCall(s) /\ access_token # NoToken /\ ExpiredAt(access_token, clock))
                 => (~last'.sent /\ calls' = calls /\ access_token' = NoToken)
        /\ (access_token = NoToken /\ access_token' # NoToken)
              => \E s \in Callers : LoginSucceeds(s)
      ]_vars

\* C5: a call of api with auth required sends nothing when the token is absent or
\* expired: absent, it fails as not authenticated and leaves storage unchanged;
\* expired, it fails as session expired and erases the token. When it does send a
\* request, the stored token is present, not expired, unchanged, and is the bearer.
C5_AuthRequiredFailsFast ==
    [][ \A s \in Callers :
           AuthApiCall(s) =>
              /\ (access_token = NoToken)
                    => /\ last'.ret = "NotAuthenticated"
                       /\ ~last'.sent
                       /\ calls' = calls
                       /\ access_token' = access_token
              /\ (access_token # NoToken /\ ExpiredAt(access_token, clock))
                    => /\ last'.ret = "SessionExpired"
                       /\ ~last'.sent
                       /\ calls' = calls
                       /\ access_token' = NoToken
              /\ last'.sent
                    => /\ access_token # NoToken
                       /\ ~ExpiredAt(access_token, clock)
                       /\ calls'[s].bearer = access_token
                       /\ access_token' = access_token
      ]_vars

\* C6: isTokenExpired(token) returns (never throws), and returns true exactly for
\* the tokens that are expired as the specification states it.
C6_IsTokenExpiredFailsClosed ==
    (probe.fn = "isTokenExpired" /\ probe.out # "none")
       => /\ probe.out \in {"true", "false"}
          /\ (probe.out = "true") <=> ExpiredAt(probe.arg, clock)

\* C7: when the response to a login request has a success status, then: if it
\* carries a non-empty access token, login succeeds and that token is the stored
\* one; if it carries none, login fails with the login-failed error and the stored
\* token is what it was.
C7_LoginStoresReturnedToken ==
    [][ \A s \in Callers :
           (/\ calls[s].op = "login"
            /\ calls'[s] = NoCall
            /\ last'.got.via = "json"
            /\ ResOk(last'.got.status))
           => IF AccessOf(last'.got.body) # NoToken
              THEN last'.ret = "ok" /\ access_token' = AccessOf(last'.got.body)
              ELSE last'.ret = "LoginFailed" /\ access_token' = access_token
      ]_vars

\* C8 as stated: the stored token changes to a non-empty value only in a step in
\* which a login succeeds.
C8_OnlyLoginStoresToken ==
    [][ (access_token' # access_token /\ access_token' # NoToken)
           => \E s \in Callers : LoginSucceeds(s)
      ]_vars

\* A step in which auth.js's register accepts the token of a success response
RegisterAccepts(s) ==
    /\ variant = AuthJs
    /\ calls[s].op = "register"
    /\ calls'[s] = NoCall
    /\ last'.op = "register"
    /\ last'.ret = "ok"
    /\ ResOk(last'.got.status)
    /\ access_token' = AccessOf(last'.got.body)

\* C8 as amended: the stored token changes to a non-empty value only in a step in
\* which a login succeeds or, in the auth.js version alone, in which register
\* receives a success response carrying a non-empty access token, which it stores.
C8_TokenStoredByLoginOrLegacyRegister ==
    [][ (access_token' # access_token /\ access_token' # NoToken)
           => \E s \in Callers : LoginSucceeds(s) \/ RegisterAccepts(s)
      ]_vars

\* C8 witness: in part_001 a registration succeeded with a response carrying an
\* access token, and the session is still anonymous.
C8_Witness ==
    /\ variant = Part001
    /\ last.op = "register"
    /\ last.ret = "ok"
    /\ AccessOf(last.got.body) = T31
    /\ access_token = NoToken

\* C9: Auth.logout() erases the token and sends nothing; the operation that runs
\* next sees no session: isAuthenticated returns false, and a call of api with
\* auth required fails as not authenticated without a request.
C9_LogoutEndsSession ==
    [][ /\ Logout => (access_token' = NoToken /\ ~last'.sent /\ calls' = calls)
        /\ (last.op = "logout")
              => /\ IsAuthenticated => last'.ret = "false"
                 /\ \A s \in Callers :
                       AuthApiCall(s) => (last'.ret = "NotAuthenticated" /\ ~last'.sent /\ calls' = calls)
      ]_vars

\* Malformed input of register, as the claim lists it
RegisterMalformed(f) ==
    \/ f.phone = EmptyStr
    \/ f.national_id = EmptyStr
    \/ f.password = EmptyStr
    \/ Len(f.password) < 8
    \/ ~normalizeKenyanPhone(variant, f.phone).ok
    \/ ~NationalIdOk(f.national_id)

\* Malformed input of login
LoginMalformed(f) ==
    \/ f.phone = EmptyStr
    \/ f.password = EmptyStr
    \/ ~normalizeKenyanPhone(variant, f.phone).ok

\* C10: register and login called with malformed input send no request and leave
\* the stored token unchanged.
C10_MalformedInputSendsNothing ==
    [][ \A s \in Callers :
           /\ \A f \in RegisterForms :
                 (Register(s, f.phone, f.national_id, f.password, f.photos) /\ RegisterMalformed(f))
                    => (~last'.sent /\ calls' = calls /\ access_token' = access_token)
           /\ \A f \in LoginForms :
                 (Login(s, f.phone, f.password) /\ LoginMalformed(f))
                    => (~last'.sent /\ calls' = calls /\ access_token' = access_token)
      ]_vars

\* The outcomes with which an invocation is still running, or ended well
NotFailed == {"pending", "ok"}

\* C11: an invocation of an Auth or Loan operation hands at most one request to the
\* network: a request of caller s is sent only by the step that starts the
\* invocation, never while a request of that invocation is awaited; the step that
\* delivers a failure (before the request, on a network failure, on a timeout, on a
\* non-success status, on a login response without a token) sends nothing and leaves
\* no request of that invocation pending, so the failure is delivered once.
C11_OneRequestPerInvocation ==
    [][ \A s \in Callers :
           /\ (last'.sent /\ last'.by = s)
                 => (calls[s] = NoCall /\ calls'[s] # NoCall /\ last'.ret = "pending")
           /\ (calls[s] # NoCall /\ calls'[s] # calls[s])
                 => (calls'[s] = NoCall /\ ~last'.sent /\ last'.by = s)
           /\ (last'.by = s /\ last'.ret \notin NotFailed /\ last' # last)
                 => (calls'[s] = NoCall /\ ~last'.sent)
      ]_vars

\* C11 witness: a login request got a success response without a token; login
\* failed, and nothing is pending for that caller.
C11_Witness ==
    /\ last.op = "login"
    /\ last.ret = "LoginFailed"
    /\ ResOk(last.got.status)
    /\ calls["c1"] = NoCall

\* The guards of payServiceFeeInline as the claim lists them
PayRefusedFor(key, amount) ==
    \/ ~provider
    \/ key = ""
    \/ amount.kind # "num"
    \/ amount.milli <= 0

\* m is amount * 100 rounded to the nearest integer, halves upwards (amount = milli / 1000)
IsRounded(m, milli) == 10 * m - 5 <= milli /\ milli < 10 * m + 5

\* C12: a call of payServiceFeeInline with the provider not loaded, an empty key or
\* an amount that is not a finite number above zero leaves its promise rejected with
\* setup never called and the widget never opened; every other call has called setup
\* exactly once, with round(amount * 100) as the amount; no later event of the
\* attempt calls setup again.
C12_GuardsBeforeSetup ==
    [][ \A p \in Attempts :
           /\ (last'.op = "payServiceFeeInline" /\ last'.by = p) =>
                 \A c \in PayCalls :
                    PayServiceFeeInline(p, c.key, c.amount, c.openThrows) =>
                       IF PayRefusedFor(c.key, c.amount)
                       THEN /\ pays'[p].st = "rejected"
                            /\ pays'[p].setups = 0
                            /\ pays'[p].first = NoEvent
                       ELSE /\ pays'[p].setups = 1
                            /\ IsRounded(pays'[p].minor, c.amount.milli)
           /\ (pays'[p].setups # pays[p].setups \/ pays'[p].minor # pays[p].minor)
                 => (last'.op = "payServiceFeeInline" /\ last'.by = p)
      ]_vars

\* C12 witness: a call with the amount 0.125 reached setup, once, with 13 minor units.
C12_Witness ==
    /\ last.op = "payServiceFeeInline"
    /\ pays["p1"].st = "pending"
    /\ pays["p1"].setups = 1
    /\ pays["p1"].minor = 13

\* computeServiceFee has been applied to a whole amount of the range [1000, 60000]
FeeAppliedInRange ==
    /\ probe.fn = "computeServiceFee"
    /\ probe.out.done
    /\ probe.arg.kind = "num"
    /\ probe.arg.milli % 1000 = 0
    /\ probe.arg.milli >= 1000 * 1000
    /\ probe.arg.milli <= 60000 * 1000

\* the amount of the probe, in whole units
ProbedAmount == probe.arg.milli \div 1000

\* the brackets of the table that contain n
BracketsOf(n) == {i \in 1..Len(Brackets) : Brackets[i].min <= n /\ n <= Brackets[i].max}

\* the table is ordered, its brackets are pairwise disjoint and lie in [1000, 60000]
BracketsOrdered ==
    /\ \A i \in 1..Len(Brackets) :
          Brackets[i].min <= Brackets[i].max /\ Brackets[i].min >= 1000 /\ Brackets[i].max <= 60000
    /\ \A i \in 1..(Len(Brackets) - 1) : Brackets[i].max < Brackets[i + 1].min

\* C13 as stated: for every integer a with 1000 <= a <= 60000, computeServiceFee(a)
\* succeeds and exactly one bracket of the table contains a; the brackets are
\* ordered and pairwise disjoint.
C13_FeeLookupTotalOnRange ==
    /\ BracketsOrdered
    /\ FeeAppliedInRange
          => (probe.out.res.ok /\ Cardinality(BracketsOf(ProbedAmount)) = 1)

\* C13 as amended: the brackets are ordered, pairwise disjoint and inside
\* [1000, 60000], and every multiple of 1000 of that range is in one of them; for
\* every integer a of the range, either exactly one bracket contains a and
\* computeServiceFee(a) succeeds, or no bracket contains a (a lies strictly between
\* two consecutive brackets) and computeServiceFee(a) fails as unsupported.
C13_FeeLookupTotalOnBrackets ==
    /\ BracketsOrdered
    /\ FeeAppliedInRange =>
          LET n == ProbedAmount IN
          /\ Cardinality(BracketsOf(n)) <= 1
          /\ (n % 1000 = 0) => BracketsOf(n) # {}
          /\ IF BracketsOf(n) # {}
             THEN probe.out.res.ok
             ELSE /\ ~probe.out.res.ok
                  /\ probe.out.res.val = "Unsupported"
                  /\ \E i \in 1..(Len(Brackets) - 1) : Brackets[i].max < n /\ n < Brackets[i + 1].min

\* C13 witness: computeServiceFee(6000) returned a fee; 6000 is in the fourth
\* bracket alone.
C13_Witness ==
    /\ FeeAppliedInRange
    /\ ProbedAmount = 6000
    /\ probe.out.res.ok
    /\ BracketsOf(6000) = {4}

\* The pricing table of the specification: the fee of a whole amount, 0 when it is in no band
PricedFee(n) ==
    CASE n = 1000                 -> 200
      [] n = 2000                 -> 290
      [] n >= 3000 /\ n <= 5000   -> 680
      [] n >= 6000 /\ n <= 11000  -> 1200
      [] n >= 12000 /\ n <= 22000 -> 2200
      [] n >= 23000 /\ n <= 32000 -> 3200
      [] n >= 33000 /\ n <= 42000 -> 4200
      [] n >= 43000 /\ n <= 52000 -> 5200
      [] n >= 53000 /\ n <= 60000 -> 6000
      [] OTHER                    -> 0

\* C14: computeServiceFee applied to an amount that is not finite or not whole
\* fails with the whole-number error; to a whole amount below 1000, with the
\* below-minimum error; above 60000, with the above-maximum error; to a whole
\* amount in one of the nine bands it returns that band's fee; to a whole amount of
\* the range in no band it fails.
C14_FeeMatchesPricingTable ==
    (probe.fn = "computeServiceFee" /\ probe.out.done) =>
       LET a == probe.arg
           r == probe.out.res
           n == a.milli \div 1000
       IN IF a.kind # "num" \/ n * 1000 # a.milli THEN ~r.ok /\ r.val = "WholeNumber"
          ELSE IF n < 1000 THEN ~r.ok /\ r.val = "BelowMinimum"
          ELSE IF n > 60000 THEN ~r.ok /\ r.val = "AboveMaximum"
          ELSE IF PricedFee(n) # 0 THEN r.ok /\ r.val.fee = PricedFee(n)
          ELSE ~r.ok

\* C14 witness: computeServiceFee(1500) failed as unsupported.
C14_Witness ==
    /\ probe.fn = "computeServiceFee"
    /\ probe.out.done
    /\ probe.arg = Num(1500 * 1000)
    /\ ~probe.out.res.ok
    /\ probe.out.res.val = "Unsupported"

\* The three shapes of the claim, on a string without whitespace, hyphens and
\* leading "+": 254[71]dddddddd, 0[71]dddddddd, [71]dddddddd
PhoneShape(x) ==
    \/ (Len(x) = 12 /\ SubSeq(x, 1, 3) = <<"2", "5", "4">> /\ x[4] \in {"7", "1"} /\ AllDigits(x))
    \/ (Len(x) = 10 /\ x[1] = "0" /\ x[2] \in {"7", "1"} /\ AllDigits(x))
    \/ (Len(x) = 9 /\ x[1] \in {"7", "1"} /\ AllDigits(x))

\* the input without whitespace and hyphens, and without one leading "+"
PhoneCleaned(x) ==
    LET bare == RemoveChars(x, Whitespace \cup {"-"})
    IN IF bare # <<>> /\ Head(bare) = "+" THEN Tail(bare) ELSE bare

\* C15: normalizeKenyanPhone succeeds exactly on the inputs that, once whitespace,
\* hyphens and one leading "+" are removed, have one of the three shapes, and
\* every value it returns is 12 digits starting with 254 and then 7 or 1.
C15_NormalizeAcceptsExactlyTheShapes ==
    (probe.fn = "normalizeKenyanPhone" /\ probe.out.done) =>
       /\ probe.out.res.ok <=> PhoneShape(PhoneCleaned(probe.arg))
       /\ probe.out.res.ok =>
             LET y == probe.out.res.val
             IN Len(y) = 12 /\ AllDigits(y) /\ SubSeq(y, 1, 3) = <<"2", "5", "4">> /\ y[4] \in {"7", "1"}

\* C16: when normalizeKenyanPhone succeeded on an input with result y, applying it
\* to y succeeds and returns y.
C16_NormalizeIdempotent ==
    (probe.fn = "normalizeKenyanPhone" /\ probe.again.done) =>
       /\ probe.again.res.ok
       /\ probe.again.res.val = probe.out.res.val

\* C16 witness: an input that was not canonical was normalized, and the result was
\* normalized again.
C16_Witness ==
    /\ probe.fn = "normalizeKenyanPhone"
    /\ probe.again.done
    /\ probe.arg # PhoneCanonical
    /\ probe.out.res.val = PhoneCanonical

\* C17: apiFormData called with auth required sends nothing when the token is
\* absent, and sends nothing and erases the token when it is expired; once a
\* response with status 401 or 403 has been handled by apiFormData, the stored
\* token is empty.
C17_UploadPathGuardsTheSession ==
    [][ \A s \in Callers :
           /\ ApiFormData(s, TRUE) =>
                 /\ (access_token = NoToken) => (~last'.sent /\ calls' = calls)
                 /\ (access_token # NoToken /\ ExpiredAt(access_token, clock))
                       => (~last'.sent /\ calls' = calls /\ access_token' = NoToken)
           /\ (calls[s].via = "form" /\ calls'[s] = NoCall /\ last'.got.status \in {401, 403})
                 => access_token' = NoToken
      ]_vars

\* C18: when the fetch of an api call fails with no response, api throws its own
\* network error, not the transport's, and the stored token is what it was.
C18_NetworkFailureIsNormalized ==
    [][ \A s \in Callers :
           (NetworkFailure(s) /\ calls[s].via = "json")
              => (last'.ret = "NetworkError" /\ access_token' = access_token)
      ]_vars

\* an attempt past provider setup whose promise is neither resolved nor rejected
InFlight(pr) == pr.setups > 0 /\ pr.st = "pending"

\* C19: in no reachable state are two payServiceFeeInline invocations both past
\* provider setup and not yet resolved or rejected.
C19_OnePaymentInFlight ==
    Cardinality({p \in Attempts : InFlight(pays[p])}) <= 1

\* C20: once the promise of an invocation is resolved or rejected, no later event
\* of that invocation (callback with or without a reference, onClose) changes its
\* state or its value; and when openIframe throws after the callback already
\* delivered a reference, the promise is resolved with that reference.
C20_OutcomeIsAbsorbing ==
    [][ \A p \in Attempts :
           /\ (Settled(pays[p]) /\ ~(last'.op = "payServiceFeeInline" /\ last'.by = p))
                 => (pays'[p].st = pays[p].st /\ pays'[p].val = pays[p].val)
           /\ (/\ last'.op = "payServiceFeeInline"
               /\ last'.by = p
               /\ pays'[p].first.ev = "callback"
               /\ pays'[p].first.arg.reference # "")
                 => (pays'[p].st = "resolved" /\ pays'[p].val = pays'[p].first.arg.reference)
      ]_vars

\* C20 witness: the user closed the widget first, a callback arrived afterwards,
\* and the promise is still rejected as closed.
C20_Witness ==
    /\ last.op = "payCallback"
    /\ pays["p1"].first.ev = "close"
    /\ pays["p1"].st = "rejected"
    /\ pays["p1"].val = "WindowClosed"

\* A step in which api handles a response with status 401 or 403 to caller s's request
UnauthorizedResponse(s) ==
    /\ calls[s] # NoCall
    /\ calls[s].via = "json"
    /\ calls'[s] = NoCall
    /\ last'.by = s
    /\ last'.got.status \in {401, 403}

\* C21 as stated, for requests sent with auth required: a 401/403 response to a
\* request that was sent with another token than the stored one, or with none
\* (the stored token was put there by a login that completed after the request
\* was sent), leaves the stored token in place.
C21_StaleUnauthorizedKeepsNewToken ==
    [][ \A s \in Callers :
           (/\ UnauthorizedResponse(s)
            /\ calls[s].auth
            /\ access_token # NoToken
            /\ calls[s].bearer # access_token)
           => access_token' = access_token
      ]_vars

\* C21 as amended: the stored token is erased only by logout, by an expiry check
\* (isAuthenticated, or api with auth required) that finds it expired, or by api
\* handling a 401/403 response, whichever token the answered request was sent with.
C21_TokenErasedOnlyByLogoutExpiryOrUnauthorized ==
    [][ (access_token # NoToken /\ access_token' = NoToken) =>
           \/ last'.op = "logout"
           \/ /\ isTokenExpired(variant, access_token, clock)
              /\ last'.ret \in {"false", "SessionExpired"}
              /\ ~last'.sent
           \/ \E s \in Callers : UnauthorizedResponse(s)
      ]_vars

\* C21 witness: a login has just stored a token while the other caller's request,
\* sent with auth required and another token, is still awaiting its response.
C21_Witness ==
    /\ last.op = "login"
    /\ last.by = "c2"
    /\ last.ret = "ok"
    /\ access_token = T31
    /\ calls["c1"].op = "me"
    /\ calls["c1"].bearer # T31

\* C22: when Auth.logout() has just returned while a login request is in flight,
\* the response to that request stores no token: the storage stays empty.
C22_LogoutOutlivesPendingLogin ==
    [][ \A s \in Callers :
           (/\ last.op = "logout"
            /\ calls[s].op = "login"
            /\ calls'[s] = NoCall)
           => access_token' = NoToken
      ]_vars

====
